---- MODULE Spec2Model ----
(***************************************************************************)
(* Model of edb::SyscallHandler (src/src/syscall_handler.cc): the adapter  *)
(* that maps open/stat/access/rename/unlink, Dir and Read/Write/Size onto  *)
(* a key-value store with the column families Db and Frm.                  *)
(*                                                                         *)
(* Strings are sequences of one-character strings, so that suffix tests,   *)
(* the three regular expressions, NormalizePath and the erase() calls of   *)
(* Dir are computed character by character as the code computes them.      *)
(* An optional<T> is a sequence of length 0 (nullopt) or 1.                *)
(***************************************************************************)
EXTENDS Integers, Sequences, FiniteSets, TLC

VARIABLES store, memfs, dirs, opened, last, lock, pc, call, tmp

vars == <<store, memfs, dirs, opened, last, lock, pc, call, tmp>>

(***************************************************************************)
(* Bounds of the model.                                                    *)
(***************************************************************************)
\* longest buffer handed to Write / longest prior value drawn by InitIO
MaxLen == 2
\* largest small offset / count handed to Read and Write
MaxOff == 2
\* width of size_t in the model; SizeMax is the largest size_t
SizeBits == 3
\* number of paths that may hold an open file handle at once
MaxOpen == 1
\* number of concurrent reader threads beside the renaming thread
NReaders == 2
\* number of threads that each make one call of any handler
NCallers == 2

SizeMax == 2^SizeBits - 1

(***************************************************************************)
(* Strings.                                                                *)
(***************************************************************************)
ExtFrm == <<".", "f", "r", "m">>
ExtOpt == <<".", "o", "p", "t">>
temp_frm_ext == <<".", "f", "r", "m", "~">>
DbOptName == <<"d", "b", ".", "o", "p", "t">>
datadir == <<"/", "d", "a", "t", "a", "/">>
DotSlash == <<".", "/">>

\* string::rfind('/') as a 1-based index; 0 stands for npos
RECURSIVE RFindFrom(_, _)
RFindFrom(s, i) ==
  IF i = 0 THEN 0
  ELSE IF s[i] = "/" THEN i
  ELSE RFindFrom(s, i - 1)

RFindSlash(s) == RFindFrom(s, Len(s))

\* first "/" at index >= i, 0 when there is none
RECURSIVE FindSlashFrom(_, _)
FindSlashFrom(s, i) ==
  IF i > Len(s) THEN 0
  ELSE IF s[i] = "/" THEN i
  ELSE FindSlashFrom(s, i + 1)

StrEndsWith(str, suffix) ==
  /\ Len(str) >= Len(suffix)
  /\ SubSeq(str, Len(str) - Len(suffix) + 1, Len(str)) = suffix

StrStartsWith(str, prefix) ==
  /\ Len(str) >= Len(prefix)
  /\ SubSeq(str, 1, Len(prefix)) = prefix

IsKnownExtension(path) == StrEndsWith(path, ExtFrm) \/ StrEndsWith(path, ExtOpt)

\* the regex atom [^./]+
IsName(s) == Len(s) >= 1 /\ \A i \in 1..Len(s) : s[i] \notin {".", "/"}

\* regex_match against  \./[^./]+/?
re_folder(p) ==
  LET n == Len(p)
      core == IF n >= 1 /\ p[n] = "/" THEN SubSeq(p, 1, n - 1) ELSE p
  IN  /\ StrStartsWith(core, DotSlash)
      /\ IsName(SubSeq(core, 3, Len(core)))

\* regex_match against  \./[^./]+/(db\.opt|[^./]+\.frm)
re_path_to_known_file(p) ==
  LET i == FindSlashFrom(p, 3)
      file == SubSeq(p, i + 1, Len(p))
  IN  /\ StrStartsWith(p, DotSlash)
      /\ i > 0
      /\ IsName(SubSeq(p, 3, i - 1))
      /\ \/ file = DbOptName
         \/ /\ StrEndsWith(file, ExtFrm)
            /\ IsName(SubSeq(file, 1, Len(file) - Len(ExtFrm)))

\* regex_match against  \./[^./]+/[^./]+\.frm~
re_path_to_temp_frm_file(p) ==
  LET i == FindSlashFrom(p, 3)
      file == SubSeq(p, i + 1, Len(p))
  IN  /\ StrStartsWith(p, DotSlash)
      /\ i > 0
      /\ IsName(SubSeq(p, 3, i - 1))
      /\ StrEndsWith(file, temp_frm_ext)
      /\ IsName(SubSeq(file, 1, Len(file) - Len(temp_frm_ext)))

\* GetCf throws runtime_error("unexpected path") on any other suffix
GetCf(path) ==
  IF StrEndsWith(path, ExtFrm) THEN "frm"
  ELSE IF StrEndsWith(path, ExtOpt) THEN "db"
  ELSE "unexpected path"

NormalizePath(path) ==
  IF ~StrStartsWith(path, datadir) THEN path
  ELSE IF path = datadir THEN <<".">>
  ELSE DotSlash \o SubSeq(path, Len(datadir) + 1, Len(path))

(***************************************************************************)
(* The store: per column family a function from the keys present to their  *)
(* values.                                                                 *)
(***************************************************************************)
EmptyStore == [db |-> <<>>, frm |-> <<>>]

Get(s, cf, key) == IF key \in DOMAIN s[cf] THEN <<s[cf][key]>> ELSE <<>>

Put(s, cf, key, value) ==
  [s EXCEPT ![cf] = [k \in (DOMAIN @) \cup {key} |-> IF k = key THEN value ELSE @[k]]]

Delete(s, cf, key) ==
  [s EXCEPT ![cf] = [k \in (DOMAIN @) \ {key} |-> @[k]]]

\* byte order of the characters that occur in keys
Ord(c) ==
  CASE c = "." -> 46
    [] c = "/" -> 47
    [] c = "a" -> 97
    [] c = "b" -> 98
    [] c = "d" -> 100
    [] c = "f" -> 102
    [] c = "m" -> 109
    [] c = "o" -> 111
    [] c = "p" -> 112
    [] c = "r" -> 114
    [] c = "s" -> 115
    [] c = "t" -> 116
    [] c = "u" -> 117
    [] c = "x" -> 120
    [] c = "~" -> 126
    [] OTHER -> 0

RECURSIVE LexLeq(_, _)
LexLeq(s, t) ==
  IF s = <<>> THEN TRUE
  ELSE IF t = <<>> THEN FALSE
  ELSE IF s[1] = t[1] THEN LexLeq(Tail(s), Tail(t))
  ELSE Ord(s[1]) < Ord(t[1])

RECURSIVE SortKeys(_)
SortKeys(S) ==
  IF S = {} THEN <<>>
  ELSE LET m == CHOOSE k \in S : \A j \in S : LexLeq(k, j)
       IN  <<m>> \o SortKeys(S \ {m})

GetKeys(s, cf, prefix) ==
  SortKeys({k \in DOMAIN s[cf] : StrStartsWith(k, prefix)})

(***************************************************************************)
(* Data I/O: Read, Write, Size.  A result is [ret, out, store].            *)
(***************************************************************************)
Min(a, b) == IF a < b THEN a ELSE b
Max(a, b) == IF a > b THEN a ELSE b

Zeros(n) == [i \in 1..n |-> 0]

\* optional::value_or(string())
ValueOr(opt) == IF opt = <<>> THEN <<>> ELSE opt[1]

\* mutant of Resize: the new bytes are left as they were in memory
ResizeNoFill(value, n) == value \o [i \in 1..(n - Len(value)) |-> 1]

\* string::resize(n) of a value shorter than n
Resize(value, n) == value \o Zeros(n - Len(value))

\* mutant of MemCpy: the destination is one byte too far
MemCpyShifted(value, offset, buf) ==
  [i \in 1..Len(value) |->
     IF i > offset + 1 /\ i <= offset + Len(buf) THEN buf[i - offset - 1] ELSE value[i]]

\* memcpy(value.data() + offset, buf.data(), buf.size())
MemCpy(value, offset, buf) ==
  [i \in 1..Len(value) |->
     IF i > offset /\ i <= offset + Len(buf) THEN buf[i - offset] ELSE value[i]]

ReadOp(s, path, count, offset) ==
  LET value == Get(s, GetCf(path), path)
  IN  IF GetCf(path) = "unexpected path"
        THEN [ret |-> "runtime_error", out |-> <<>>, store |-> s]
      ELSE IF value = <<>>
        THEN [ret |-> "logic_error", out |-> <<>>, store |-> s]
      ELSE IF Len(value[1]) <= offset
        THEN [ret |-> "ok", out |-> <<>>, store |-> s]
      ELSE [ret |-> "ok",
            out |-> SubSeq(value[1], offset + 1,
                           offset + Min(count, Len(value[1]) - offset)),
            store |-> s]

\* mutant of WriteOp: the sum is taken without the wrap of size_t, as if a
\* wider type held it
WriteOpNoWrap(s, path, buf, offset) ==
  LET cf == GetCf(path)
      got == Get(s, cf, path)
      value == IF got = <<>> THEN <<>> ELSE got[1]
      required_size == offset + Len(buf)
      grown == IF Len(value) < required_size THEN Resize(value, required_size) ELSE value
  IN  IF cf = "unexpected path"
        THEN [ret |-> "runtime_error", out |-> <<>>, store |-> s]
      ELSE IF required_size < offset
        THEN [ret |-> "overflow_error", out |-> <<>>, store |-> s]
      ELSE [ret |-> "ok", out |-> <<>>,
            store |-> Put(s, cf, path, MemCpy(grown, offset, buf))]

WriteOp(s, path, buf, offset) ==
  LET cf == GetCf(path)
      got == Get(s, cf, path)
      value == IF got = <<>> THEN <<>> ELSE got[1]
      required_size == (offset + Len(buf)) % (SizeMax + 1)
      grown == IF Len(value) < required_size THEN Resize(value, required_size) ELSE value
  IN  IF cf = "unexpected path"
        THEN [ret |-> "runtime_error", out |-> <<>>, store |-> s]
      ELSE IF required_size < offset
        THEN [ret |-> "overflow_error", out |-> <<>>, store |-> s]
      ELSE [ret |-> "ok", out |-> <<>>,
            store |-> Put(s, cf, path, MemCpy(grown, offset, buf))]

SizeOp(s, path) ==
  LET got == Get(s, GetCf(path), path)
  IN  IF GetCf(path) = "unexpected path"
        THEN [ret |-> "runtime_error", out |-> <<>>, store |-> s]
      ELSE [ret |-> "ok", out |-> <<IF got = <<>> THEN 0 ELSE Len(got[1])>>, store |-> s]

(***************************************************************************)
(* The handlers.  Each takes the store s, the ephemeral medium fs (its     *)
(* files), its directories ds and the open handles hs, and yields          *)
(* [ret, out, store, memfs, dirs, opened].  ret is "ok" (0, or a file      *)
(* descriptor), "enoent" (-1 with errno ENOENT), "na" (an empty optional)  *)
(* or the exception thrown.                                                *)
(***************************************************************************)
Outcome(ret, out, s, fs, ds, hs) ==
  [ret |-> ret, out |-> out, store |-> s, memfs |-> fs, dirs |-> ds, opened |-> hs]

Exists(s, path) == Get(s, GetCf(path), path) # <<>>

\* string(path, 0, path.rfind('/'))
ParentOf(path) == SubSeq(path, 1, RFindSlash(path) - 1)

\* string(path, 0, path.rfind('/') + 1) + "db.opt"
DbOptOf(path) == SubSeq(path, 1, RFindSlash(path)) \o DbOptName

\* RedirectOpenFile(path, this): a handle bound to path
RedirectOpenFile(hs, path) == hs \cup {path}

\* mutant of OpenOp: with O_CREAT the database is not looked up
OpenOpCreatSkipsDb(s, fs, ds, hs, pathname, creat) ==
  LET path == NormalizePath(pathname)
  IN  IF ~IsKnownExtension(path) THEN
        IF StrEndsWith(path, temp_frm_ext) THEN
          IF ~re_path_to_temp_frm_file(path)
            THEN Outcome("invalid_argument", <<>>, s, fs, ds, hs)
            ELSE Outcome("na", <<>>, s, fs, ds \cup {ParentOf(path)}, hs)
        ELSE Outcome("na", <<>>, s, fs, ds, hs)
      ELSE IF ~re_path_to_known_file(path)
        THEN Outcome("invalid_argument", <<>>, s, fs, ds, hs)
      ELSE IF ~creat /\ ~Exists(s, path)
        THEN Outcome("enoent", <<>>, s, fs, ds, hs)
      ELSE IF ~creat /\ StrEndsWith(path, ExtFrm) /\ ~Exists(s, DbOptOf(path))
        THEN Outcome("enoent", <<>>, s, fs, ds, hs)
      ELSE Outcome("ok", <<>>, s, fs, ds, RedirectOpenFile(hs, path))

\* mutant of OpenOp: O_CREAT puts an empty entry for a file that is absent
OpenOpCreates(s, fs, ds, hs, pathname, creat) ==
  LET path == NormalizePath(pathname)
  IN  IF ~IsKnownExtension(path) THEN
        IF StrEndsWith(path, temp_frm_ext) THEN
          IF ~re_path_to_temp_frm_file(path)
            THEN Outcome("invalid_argument", <<>>, s, fs, ds, hs)
            ELSE Outcome("na", <<>>, s, fs, ds \cup {ParentOf(path)}, hs)
        ELSE Outcome("na", <<>>, s, fs, ds, hs)
      ELSE IF ~re_path_to_known_file(path)
        THEN Outcome("invalid_argument", <<>>, s, fs, ds, hs)
      ELSE IF ~creat /\ ~Exists(s, path)
        THEN Outcome("enoent", <<>>, s, fs, ds, hs)
      ELSE IF StrEndsWith(path, ExtFrm) /\ ~Exists(s, DbOptOf(path))
        THEN Outcome("enoent", <<>>, s, fs, ds, hs)
      ELSE Outcome("ok", <<>>,
                   IF Exists(s, path) THEN s ELSE Put(s, GetCf(path), path, <<>>),
                   fs, ds, RedirectOpenFile(hs, path))

OpenOp(s, fs, ds, hs, pathname, creat) ==
  LET path == NormalizePath(pathname)
  IN  IF ~IsKnownExtension(path) THEN
        IF StrEndsWith(path, temp_frm_ext) THEN
          IF ~re_path_to_temp_frm_file(path)
            THEN Outcome("invalid_argument", <<>>, s, fs, ds, hs)
            ELSE Outcome("na", <<>>, s, fs, ds \cup {ParentOf(path)}, hs)
        ELSE Outcome("na", <<>>, s, fs, ds, hs)
      ELSE IF ~re_path_to_known_file(path)
        THEN Outcome("invalid_argument", <<>>, s, fs, ds, hs)
      ELSE IF ~creat /\ ~Exists(s, path)
        THEN Outcome("enoent", <<>>, s, fs, ds, hs)
      ELSE IF StrEndsWith(path, ExtFrm) /\ ~Exists(s, DbOptOf(path))
        THEN Outcome("enoent", <<>>, s, fs, ds, hs)
      ELSE Outcome("ok", <<>>, s, fs, ds, RedirectOpenFile(hs, path))

StatOp(s, fs, ds, hs, path) ==
  LET value == Get(s, GetCf(path), path)
  IN  IF ~IsKnownExtension(path) THEN Outcome("na", <<>>, s, fs, ds, hs)
      ELSE IF ~re_path_to_known_file(path)
        THEN Outcome("invalid_argument", <<>>, s, fs, ds, hs)
      ELSE IF value = <<>> THEN Outcome("enoent", <<>>, s, fs, ds, hs)
      ELSE Outcome("ok", <<Len(value[1])>>, s, fs, ds, hs)

\* mutant of AccessOp: a folder whose db.opt is absent fails with ENOENT
AccessOpFolderEnoent(s, fs, ds, hs, pathname) ==
  LET known_ext == IsKnownExtension(pathname)
      retried == DotSlash \o pathname
      probe == (IF pathname[Len(pathname)] # "/" THEN pathname \o <<"/">> ELSE pathname)
                 \o DbOptName
  IN  IF known_ext /\ ~re_path_to_known_file(pathname) /\ ~re_path_to_known_file(retried)
        THEN Outcome("invalid_argument", <<>>, s, fs, ds, hs)
      ELSE IF ~known_ext /\ ~re_folder(pathname)
        THEN Outcome("na", <<>>, s, fs, ds, hs)
      ELSE LET path == IF ~known_ext THEN probe
                       ELSE IF re_path_to_known_file(pathname) THEN pathname
                       ELSE retried
           IN  IF Exists(s, path) THEN Outcome("ok", <<>>, s, fs, ds, hs)
               ELSE Outcome("enoent", <<>>, s, fs, ds, hs)

AccessOp(s, fs, ds, hs, pathname) ==
  LET known_ext == IsKnownExtension(pathname)
      retried == DotSlash \o pathname
      probe == (IF pathname[Len(pathname)] # "/" THEN pathname \o <<"/">> ELSE pathname)
                 \o DbOptName
  IN  IF known_ext /\ ~re_path_to_known_file(pathname) /\ ~re_path_to_known_file(retried)
        THEN Outcome("invalid_argument", <<>>, s, fs, ds, hs)
      ELSE IF ~known_ext /\ ~re_folder(pathname)
        THEN Outcome("na", <<>>, s, fs, ds, hs)
      ELSE LET path == IF ~known_ext THEN probe
                       ELSE IF re_path_to_known_file(pathname) THEN pathname
                       ELSE retried
           IN  IF Exists(s, path) THEN Outcome("ok", <<>>, s, fs, ds, hs)
               ELSE IF ~known_ext THEN Outcome("na", <<>>, s, fs, ds, hs)
               ELSE Outcome("enoent", <<>>, s, fs, ds, hs)

\* ReadFile(path): [ret, buf]; fread(buf, size, 1, file) reads no item of a
\* file of size 0, so res is 0 and the call throws
ReadFile(fs, path) ==
  IF path \notin DOMAIN fs THEN [ret |-> "cant_open_file", buf |-> <<>>]
  ELSE IF Len(fs[path]) = 0 THEN [ret |-> "cant_read_file", buf |-> <<>>]
  ELSE [ret |-> "ok", buf |-> fs[path]]

\* remove(path) in the ephemeral medium
RemoveFile(fs, path) == [k \in (DOMAIN fs) \ {path} |-> fs[k]]

\* the locked section of Rename between two .frm paths
RenameFrm(s, oldpath, newpath) ==
  Delete(Put(s, "frm", newpath, Get(s, "frm", oldpath)[1]), "frm", oldpath)

\* mutant of RenameOp: an absent source is moved as an empty value
RenameOpValueOr(s, fs, ds, hs, oldpath, newpath) ==
  IF StrEndsWith(oldpath, ExtFrm) /\ StrEndsWith(newpath, ExtFrm) THEN
    IF ~re_path_to_known_file(oldpath) \/ ~re_path_to_known_file(newpath)
      THEN Outcome("invalid_argument", <<>>, s, fs, ds, hs)
    ELSE Outcome("ok", <<>>,
                 Delete(Put(s, "frm", newpath, ValueOr(Get(s, "frm", oldpath))),
                        "frm", oldpath),
                 fs, ds, hs)
  ELSE IF StrEndsWith(oldpath, temp_frm_ext) THEN
    IF ~re_path_to_known_file(newpath)
      THEN Outcome("invalid_argument", <<>>, s, fs, ds, hs)
    ELSE IF ReadFile(fs, oldpath).ret # "ok"
      THEN Outcome(ReadFile(fs, oldpath).ret, <<>>, s, fs, ds, hs)
    ELSE Outcome("ok", <<>>, Put(s, "frm", newpath, ReadFile(fs, oldpath).buf),
                 RemoveFile(fs, oldpath), ds, hs)
  ELSE Outcome("na", <<>>, s, fs, ds, hs)

\* mutant of RenameOp: the new path of a promotion is not matched against
\* the known-file grammar
RenameOpNewUnchecked(s, fs, ds, hs, oldpath, newpath) ==
  IF StrEndsWith(oldpath, ExtFrm) /\ StrEndsWith(newpath, ExtFrm) THEN
    IF ~re_path_to_known_file(oldpath) \/ ~re_path_to_known_file(newpath)
      THEN Outcome("invalid_argument", <<>>, s, fs, ds, hs)
    ELSE IF Get(s, "frm", oldpath) = <<>>
      THEN Outcome("bad_optional_access", <<>>, s, fs, ds, hs)
    ELSE Outcome("ok", <<>>, RenameFrm(s, oldpath, newpath), fs, ds, hs)
  ELSE IF StrEndsWith(oldpath, temp_frm_ext) THEN
    IF ReadFile(fs, oldpath).ret # "ok"
      THEN Outcome(ReadFile(fs, oldpath).ret, <<>>, s, fs, ds, hs)
    ELSE Outcome("ok", <<>>, Put(s, "frm", newpath, ReadFile(fs, oldpath).buf),
                 RemoveFile(fs, oldpath), ds, hs)
  ELSE Outcome("na", <<>>, s, fs, ds, hs)

RenameOp(s, fs, ds, hs, oldpath, newpath) ==
  IF StrEndsWith(oldpath, ExtFrm) /\ StrEndsWith(newpath, ExtFrm) THEN
    IF ~re_path_to_known_file(oldpath) \/ ~re_path_to_known_file(newpath)
      THEN Outcome("invalid_argument", <<>>, s, fs, ds, hs)
    ELSE IF Get(s, "frm", oldpath) = <<>>
      THEN Outcome("bad_optional_access", <<>>, s, fs, ds, hs)
    ELSE Outcome("ok", <<>>, RenameFrm(s, oldpath, newpath), fs, ds, hs)
  ELSE IF StrEndsWith(oldpath, temp_frm_ext) THEN
    IF ~re_path_to_known_file(newpath)
      THEN Outcome("invalid_argument", <<>>, s, fs, ds, hs)
    ELSE IF ReadFile(fs, oldpath).ret # "ok"
      THEN Outcome(ReadFile(fs, oldpath).ret, <<>>, s, fs, ds, hs)
    ELSE Outcome("ok", <<>>, Put(s, "frm", newpath, ReadFile(fs, oldpath).buf),
                 RemoveFile(fs, oldpath), ds, hs)
  ELSE Outcome("na", <<>>, s, fs, ds, hs)

\* mutant of UnlinkOp: the entry is looked for in the other column family
UnlinkOpWrongCf(s, fs, ds, hs, path) ==
  IF ~IsKnownExtension(path) THEN Outcome("na", <<>>, s, fs, ds, hs)
  ELSE Outcome("ok", <<>>,
               Delete(s, IF GetCf(path) = "frm" THEN "db" ELSE "frm", path), fs, ds, hs)

\* mutant of UnlinkOp: deleting a db.opt also deletes the tables of its folder
UnlinkOpCascade(s, fs, ds, hs, path) ==
  IF ~IsKnownExtension(path) THEN Outcome("na", <<>>, s, fs, ds, hs)
  ELSE IF GetCf(path) = "db"
    THEN Outcome("ok", <<>>,
                 [db |-> Delete(s, "db", path).db,
                  frm |-> [k \in {x \in DOMAIN s.frm : ParentOf(x) # ParentOf(path)}
                             |-> s.frm[k]]],
                 fs, ds, hs)
  ELSE Outcome("ok", <<>>, Delete(s, GetCf(path), path), fs, ds, hs)

UnlinkOp(s, fs, ds, hs, path) ==
  IF ~IsKnownExtension(path) THEN Outcome("na", <<>>, s, fs, ds, hs)
  ELSE Outcome("ok", <<>>, Delete(s, GetCf(path), path), fs, ds, hs)

\* x.erase(x.rfind('/')); x.erase(0, 2): erase(npos) throws out_of_range
StripDb(x) == SubSeq(x, 3, RFindSlash(x) - 1)

\* x.erase(0, x.rfind('/') + 1)
StripFolder(x) == SubSeq(x, RFindSlash(x) + 1, Len(x))

DirOp(s, fs, ds, hs, pathname) ==
  LET path == NormalizePath(pathname)
      is_db == path = <<".">>
      result == IF is_db THEN GetKeys(s, "db", <<>>) ELSE GetKeys(s, "frm", path)
  IN  IF ~is_db /\ ~re_folder(path)
        THEN Outcome("invalid_argument", <<>>, s, fs, ds, hs)
      ELSE IF is_db /\ \E i \in 1..Len(result) : RFindSlash(result[i]) = 0
        THEN Outcome("out_of_range", <<>>, s, fs, ds, hs)
      ELSE Outcome("ok",
                   [i \in 1..Len(result) |->
                      IF is_db THEN StripDb(result[i]) ELSE StripFolder(result[i])],
                   s, fs, ds, hs)

\* the syscall numbers of the switch (x86-64), and one it has no case for
SYS_open == 2
SYS_stat == 4
SYS_access == 21
SYS_rename == 82
SYS_unlink == 87
SYS_mkdir == 83

\* the handler a syscall number is dispatched to
SyscallName(number) ==
  CASE number = SYS_open -> "Open"
    [] number = SYS_stat -> "Stat"
    [] number = SYS_access -> "Access"
    [] number = SYS_rename -> "Rename"
    [] number = SYS_unlink -> "Unlink"
    [] OTHER -> "default"

\* Syscall(number, x1, x2): x2 is the O_CREAT bit of the flags for open, the
\* new path for rename
SyscallOp(s, fs, ds, hs, number, x1, x2) ==
  CASE number = SYS_open -> OpenOp(s, fs, ds, hs, x1, x2)
    [] number = SYS_stat -> StatOp(s, fs, ds, hs, x1)
    [] number = SYS_access -> AccessOp(s, fs, ds, hs, x1)
    [] number = SYS_rename -> RenameOp(s, fs, ds, hs, x1, x2)
    [] number = SYS_unlink -> UnlinkOp(s, fs, ds, hs, x1)
    [] OTHER -> Outcome("na", <<>>, s, fs, ds, hs)

(***************************************************************************)
(* Inputs.                                                                 *)
(***************************************************************************)
\* the byte resize() fills with, and another one
Bytes == {0, 1}

\* every byte string of length <= n
BytesUpTo(n) == UNION {[1..k -> Bytes] : k \in 0..n}

\* offsets and counts: the small ones and the largest size_t
Offsets == (0..MaxOff) \cup {SizeMax}

Path(db, file) == DotSlash \o db \o <<"/">> \o file
FrmName(t) == t \o ExtFrm

DbA == <<"a">>
DbAB == <<"a", "b">>
TblT == <<"t">>

\* paths a file handle of the Data I/O checks is bound to: a table file, a
\* .opt file outside the grammar, and an unknown extension
IoPaths ==
  { Path(DbA, FrmName(TblT)), <<"x">> \o ExtOpt, Path(DbA, TblT \o temp_frm_ext) }

\* The last call: its name, its path, its other arguments, the value the
\* entry it writes or deletes held before (an optional), its outcome and its
\* output.
NoCall ==
  [op |-> "init", path |-> <<>>, arg |-> <<>>, pre |-> <<>>, ret |-> "na", out |-> <<>>]

Returned(op, path, arg, pre, r) ==
  [op |-> op, path |-> path, arg |-> arg, pre |-> pre, ret |-> r.ret, out |-> r.out]

\* the entry of path before the call, nullopt also when path has no column family
Prior(s, path) == IF IsKnownExtension(path) THEN Get(s, GetCf(path), path) ELSE <<>>

(***************************************************************************)
(* Spec: the handlers called one after another on one adapter, from the    *)
(* empty store.                                                            *)
(***************************************************************************)
TblFrmA == Path(DbA, FrmName(TblT))
TblFrmAB == Path(DbAB, FrmName(TblT))
DbOptA == Path(DbA, DbOptName)
DbOptAB == Path(DbAB, DbOptName)
TempFrmA == Path(DbA, TblT \o temp_frm_ext)
\* ./a/s/t.frm: a nested folder
NestedFrm == Path(DbA, <<"s", "/">> \o FrmName(TblT))
\* a/t.frm: no leading ./
BareFrmA == DbA \o <<"/">> \o FrmName(TblT)
\* /data/a/t.frm: the absolute form
AbsFrmA == datadir \o DbA \o <<"/">> \o FrmName(TblT)
\* ./a/t.MYD: a file the adapter does not serve
OtherFile == Path(DbA, TblT \o <<".", "M", "Y", "D">>)

FolderA == DotSlash \o DbA
FolderASlash == DotSlash \o DbA \o <<"/">>
FolderABSlash == DotSlash \o DbAB \o <<"/">>

OpenPaths == {DbOptA, DbOptAB, TblFrmA, TempFrmA, NestedFrm, AbsFrmA, OtherFile}
StatPaths == {DbOptA, TblFrmA, NestedFrm, AbsFrmA, OtherFile}
AccessPaths == {TblFrmA, BareFrmA, NestedFrm, FolderA, FolderABSlash, OtherFile}
UnlinkPaths == {DbOptA, DbOptAB, TblFrmA, TblFrmAB, AbsFrmA, OtherFile}
RenameOldPaths == {TblFrmA, TblFrmAB, TempFrmA, NestedFrm}
RenameNewPaths == {TblFrmA, TblFrmAB, DbOptA, NestedFrm, OtherFile}
DirPaths == {<<".">>, datadir, FolderA, FolderASlash, NestedFrm}
\* what the storage engine writes into a temp file, and through a handle
TempContents == {<<>>, <<1>>}
HandleBufs == {<<0>>}
HandleCounts == {1}
\* raw syscalls: one the switch has a case for and one it has none for
RawNumbers == {SYS_unlink, SYS_mkdir}
RawPaths == {TblFrmA}

Init ==
  /\ store = EmptyStore
  /\ memfs = <<>>
  /\ dirs = {}
  /\ opened = {}
  /\ last = NoCall
  /\ lock = 0
  /\ pc = <<>>
  /\ call = <<>>
  /\ tmp = <<>>

\* the call returns (or throws) r
Return(op, path, arg, pre, r) ==
  /\ store' = r.store
  /\ memfs' = r.memfs
  /\ dirs' = r.dirs
  /\ opened' = r.opened
  /\ last' = Returned(op, path, arg, pre, r)
  /\ UNCHANGED <<lock, pc, call, tmp>>

Open(pathname, creat) ==
  LET r == OpenOp(store, memfs, dirs, opened, pathname, creat)
  IN  /\ Cardinality(r.opened) <= MaxOpen
      /\ Return("Open", pathname, <<creat>>, <<>>, r)

Stat(pathname) ==
  Return("Stat", pathname, <<>>, <<>>, StatOp(store, memfs, dirs, opened, pathname))

Access(pathname) ==
  Return("Access", pathname, <<>>, <<>>, AccessOp(store, memfs, dirs, opened, pathname))

Rename(oldpath, newpath) ==
  Return("Rename", oldpath, <<newpath>>,
         IF StrEndsWith(oldpath, temp_frm_ext)
           THEN (IF oldpath \in DOMAIN memfs THEN <<memfs[oldpath]>> ELSE <<>>)
           ELSE Prior(store, oldpath),
         RenameOp(store, memfs, dirs, opened, oldpath, newpath))

Unlink(pathname) ==
  Return("Unlink", pathname, <<>>, Prior(store, pathname),
         UnlinkOp(store, memfs, dirs, opened, pathname))

Dir(pathname) ==
  Return("Dir", pathname, <<>>, <<>>, DirOp(store, memfs, dirs, opened, pathname))

\* Write through the handle of an opened path
Write(p, buf, offset) ==
  LET r == WriteOp(store, p, buf, offset)
  IN  Return("Write", p, <<buf, offset>>, Prior(store, p),
             Outcome(r.ret, r.out, r.store, memfs, dirs, opened))

\* Read through the handle of an opened path
Read(p, count, offset) ==
  LET r == ReadOp(store, p, count, offset)
  IN  Return("Read", p, <<count, offset>>, Prior(store, p),
             Outcome(r.ret, r.out, r.store, memfs, dirs, opened))

\* Size through the handle of an opened path
Size(p) ==
  LET r == SizeOp(store, p)
  IN  Return("Size", p, <<>>, Prior(store, p),
             Outcome(r.ret, r.out, r.store, memfs, dirs, opened))

\* a raw syscall with one path argument enters through the dispatcher
Syscall(number, x1) ==
  Return(SyscallName(number), x1, <<number>>, Prior(store, x1),
         SyscallOp(store, memfs, dirs, opened, number, x1, <<>>))

\* the storage engine fills a temp file in the ephemeral medium, in a folder
\* that Open has made
TempCreate(p, content) ==
  /\ re_path_to_temp_frm_file(p)
  /\ ParentOf(p) \in dirs
  /\ memfs' = [k \in (DOMAIN memfs) \cup {p} |-> IF k = p THEN content ELSE memfs[k]]
  /\ last' = [NoCall EXCEPT !.op = "TempCreate", !.path = p, !.arg = <<content>>]
  /\ UNCHANGED <<store, dirs, opened, lock, pc, call, tmp>>

\* the file handle of p is closed
Close(p) ==
  /\ opened' = opened \ {p}
  /\ last' = [NoCall EXCEPT !.op = "Close", !.path = p]
  /\ UNCHANGED <<store, memfs, dirs, lock, pc, call, tmp>>

Next ==
  \/ \E p \in OpenPaths, creat \in BOOLEAN : Open(p, creat)
  \/ \E p \in StatPaths : Stat(p)
  \/ \E p \in AccessPaths : Access(p)
  \/ \E old \in RenameOldPaths, new \in RenameNewPaths : Rename(old, new)
  \/ \E p \in UnlinkPaths : Unlink(p)
  \/ \E p \in DirPaths : Dir(p)
  \/ \E p \in opened, buf \in HandleBufs : Write(p, buf, 0)
  \/ \E p \in opened, count \in HandleCounts : Read(p, count, 0)
  \/ \E p \in opened : Size(p)
  \/ \E number \in RawNumbers, p \in RawPaths : Syscall(number, p)
  \/ \E p \in opened : Close(p)
  \/ \E p \in {TempFrmA}, content \in TempContents : TempCreate(p, content)

Spec == Init /\ [][Next]_vars

(***************************************************************************)
(* SpecIO: Read, Write and Size through one handle, from every prior value *)
(* of its entry.                                                           *)
(***************************************************************************)
InitIO ==
  /\ \E p \in IoPaths :
       /\ opened = {p}
       /\ \/ store = EmptyStore
          \/ /\ IsKnownExtension(p)
             /\ \E v \in BytesUpTo(MaxLen) : store = Put(EmptyStore, GetCf(p), p, v)
  /\ memfs = <<>>
  /\ dirs = {}
  /\ last = NoCall
  /\ lock = 0
  /\ pc = <<>>
  /\ call = <<>>
  /\ tmp = <<>>

IoWrite(p, buf, offset) ==
  LET r == WriteOp(store, p, buf, offset)
  IN  /\ store' = r.store
      /\ last' = Returned("Write", p, <<buf, offset>>, Prior(store, p), r)
      /\ UNCHANGED <<memfs, dirs, opened, lock, pc, call, tmp>>

IoRead(p, count, offset) ==
  LET r == ReadOp(store, p, count, offset)
  IN  /\ last' = Returned("Read", p, <<count, offset>>, <<>>, r)
      /\ UNCHANGED <<store, memfs, dirs, opened, lock, pc, call, tmp>>

IoSize(p) ==
  LET r == SizeOp(store, p)
  IN  /\ last' = Returned("Size", p, <<>>, <<>>, r)
      /\ UNCHANGED <<store, memfs, dirs, opened, lock, pc, call, tmp>>

NextIO ==
  \/ \E p \in opened, buf \in BytesUpTo(MaxLen), offset \in Offsets : IoWrite(p, buf, offset)
  \/ \E p \in opened, count \in Offsets, offset \in Offsets : IoRead(p, count, offset)
  \/ \E p \in opened : IoSize(p)

SpecIO == InitIO /\ [][NextIO]_vars

(***************************************************************************)
(* SpecConc: one thread in Rename between two .frm paths while reader      *)
(* threads call Stat and Access, every statement of the locked sections a  *)
(* step of its own.  lock is 0 when mutex_ is free, else its holder + 1.   *)
(* Before the rename the source holds a value and the target is absent.    *)
(***************************************************************************)
Renamer == 0
Readers == 1..NReaders
Threads == {Renamer} \cup Readers

ConcPaths == {TblFrmA, TblFrmAB}
ConcValues == {<<0>>, <<1>>}

Idle == [op |-> "none", path |-> <<>>, arg |-> <<>>, pre |-> <<>>, ret |-> "na"]

InitConc ==
  /\ \E a \in ConcPaths, b \in ConcPaths, v \in ConcValues :
       /\ a # b
       /\ store = Put(EmptyStore, "frm", a, v)
       /\ call = [t \in Threads |->
                    IF t = Renamer
                      THEN [op |-> "Rename", path |-> a, arg |-> <<b>>,
                            pre |-> <<v>>, ret |-> "running"]
                      ELSE Idle]
  /\ pc = [t \in Threads |-> IF t = Renamer THEN "start" ELSE "idle"]
  /\ tmp = [t \in Threads |-> <<>>]
  /\ lock = 0
  /\ memfs = <<>>
  /\ dirs = {}
  /\ opened = {}
  /\ last = NoCall

Goto(t, label) == pc' = [pc EXCEPT ![t] = label]
Finish(t, label, ret) ==
  /\ pc' = [pc EXCEPT ![t] = label]
  /\ call' = [call EXCEPT ![t].ret = ret]

\* the Rename of thread t promotes a temp file
Promotes(t) ==
  /\ ~(StrEndsWith(call[t].path, ExtFrm) /\ StrEndsWith(call[t].arg[1], ExtFrm))
  /\ StrEndsWith(call[t].path, temp_frm_ext)

\* Rename, the suffix and grammar checks before the locked section
RenameCheck(t) ==
  /\ pc[t] = "start" /\ call[t].op = "Rename"
  /\ IF StrEndsWith(call[t].path, ExtFrm) /\ StrEndsWith(call[t].arg[1], ExtFrm)
       THEN IF re_path_to_known_file(call[t].path) /\ re_path_to_known_file(call[t].arg[1])
              THEN Goto(t, "lock") /\ UNCHANGED call
              ELSE Finish(t, "done", "invalid_argument")
       ELSE IF StrEndsWith(call[t].path, temp_frm_ext)
         THEN IF re_path_to_known_file(call[t].arg[1])
                THEN Goto(t, "lock") /\ UNCHANGED call
                ELSE Finish(t, "done", "invalid_argument")
       ELSE Finish(t, "done", "na")
  /\ UNCHANGED <<store, memfs, dirs, opened, last, lock, tmp>>

\* mutant of RenameLock: the locked section is entered without the mutex
RenameNoLock(t) ==
  /\ pc[t] = "lock" /\ call[t].op = "Rename"
  /\ Goto(t, IF Promotes(t) THEN "readfile" ELSE "get")
  /\ UNCHANGED <<store, memfs, dirs, opened, last, lock, call, tmp>>

\* const lock_guard lock(mutex_)
RenameLock(t) ==
  /\ pc[t] = "lock" /\ call[t].op = "Rename"
  /\ lock = 0
  /\ lock' = t + 1
  /\ Goto(t, IF Promotes(t) THEN "readfile" ELSE "get")
  /\ UNCHANGED <<store, memfs, dirs, opened, last, call, tmp>>

\* const auto value = store_->Get(kCfNameFrm, oldpath)
RenameGet(t) ==
  /\ pc[t] = "get" /\ call[t].op = "Rename"
  /\ tmp' = [tmp EXCEPT ![t] = Get(store, "frm", call[t].path)]
  /\ Goto(t, "put")
  /\ UNCHANGED <<store, memfs, dirs, opened, last, lock, call>>

\* mutant of RenamePut: the exception leaves the mutex held
RenamePutKeepsLock(t) ==
  /\ pc[t] = "put" /\ call[t].op = "Rename"
  /\ IF tmp[t] = <<>>
       THEN /\ Finish(t, "done", "bad_optional_access")
            /\ UNCHANGED <<store, lock>>
       ELSE /\ store' = Put(store, "frm", call[t].arg[1], tmp[t][1])
            /\ Goto(t, IF Promotes(t) THEN "remove" ELSE "del")
            /\ UNCHANGED <<lock, call>>
  /\ UNCHANGED <<memfs, dirs, opened, last, tmp>>

\* store_->Put(kCfNameFrm, newpath, value.value()), or the Put of what
\* ReadFile returned; value() throws on an empty optional and the guard
\* releases the mutex
RenamePut(t) ==
  /\ pc[t] = "put" /\ call[t].op = "Rename"
  /\ IF tmp[t] = <<>>
       THEN /\ Finish(t, "done", "bad_optional_access")
            /\ lock' = 0
            /\ UNCHANGED store
       ELSE /\ store' = Put(store, "frm", call[t].arg[1], tmp[t][1])
            /\ Goto(t, IF Promotes(t) THEN "remove" ELSE "del")
            /\ UNCHANGED <<lock, call>>
  /\ UNCHANGED <<memfs, dirs, opened, last, tmp>>

\* store_->Delete(kCfNameFrm, oldpath)
RenameDelete(t) ==
  /\ pc[t] = "del" /\ call[t].op = "Rename"
  /\ store' = Delete(store, "frm", call[t].path)
  /\ Goto(t, "unlock")
  /\ UNCHANGED <<memfs, dirs, opened, last, lock, call, tmp>>

\* return 0, the guard releases the mutex
RenameReturn(t) ==
  /\ pc[t] = "unlock" /\ call[t].op = "Rename"
  /\ lock' = 0
  /\ Finish(t, "done", "ok")
  /\ UNCHANGED <<store, memfs, dirs, opened, last, tmp>>

\* Stat or Access is called: the checks before the locked section; arg is
\* the key the locked section looks up (for Access the path itself, the path
\* behind ./, or the db.opt of the folder)
ReaderCall(t, op, path) ==
  LET known_ext == IsKnownExtension(path)
      retried == DotSlash \o path
      probe == (IF path[Len(path)] # "/" THEN path \o <<"/">> ELSE path) \o DbOptName
      invalid == IF op = "Stat" THEN known_ext /\ ~re_path_to_known_file(path)
                 ELSE /\ known_ext
                      /\ ~re_path_to_known_file(path)
                      /\ ~re_path_to_known_file(retried)
      na == IF op = "Stat" THEN ~known_ext ELSE ~known_ext /\ ~re_folder(path)
      key == IF op = "Stat" \/ re_path_to_known_file(path) THEN path
             ELSE IF known_ext THEN retried
             ELSE probe
      called == [Idle EXCEPT !.op = op, !.path = path]
  IN  /\ pc[t] = "idle"
      /\ tmp' = [tmp EXCEPT ![t] = <<>>]
      /\ IF na THEN /\ pc' = pc
                    /\ call' = [call EXCEPT ![t] = called]
         ELSE IF invalid
           THEN /\ pc' = pc
                /\ call' = [call EXCEPT ![t] = [called EXCEPT !.ret = "invalid_argument"]]
         ELSE /\ Goto(t, "lock")
              /\ call' = [call EXCEPT ![t] =
                            [called EXCEPT !.arg = <<key>>, !.ret = "running"]]
      /\ UNCHANGED <<store, memfs, dirs, opened, last, lock>>

\* const lock_guard lock(mutex_) of Stat and of Exists
ReaderLock(t) ==
  /\ pc[t] = "lock" /\ call[t].op \in {"Stat", "Access"}
  /\ lock = 0
  /\ lock' = t + 1
  /\ Goto(t, "get")
  /\ UNCHANGED <<store, memfs, dirs, opened, last, call, tmp>>

\* store_->Get(cf, path)
ReaderGet(t) ==
  /\ pc[t] = "get" /\ call[t].op \in {"Stat", "Access"}
  /\ tmp' = [tmp EXCEPT ![t] = Get(store, GetCf(call[t].arg[1]), call[t].arg[1])]
  /\ Goto(t, "unlock")
  /\ UNCHANGED <<store, memfs, dirs, opened, last, lock, call>>

\* the guard releases the mutex and the call returns what it read
ReaderReturn(t) ==
  /\ pc[t] = "unlock" /\ call[t].op \in {"Stat", "Access"}
  /\ lock' = 0
  /\ Finish(t, "idle",
            IF tmp[t] # <<>> THEN "ok"
            ELSE IF call[t].op = "Access" /\ ~IsKnownExtension(call[t].path) THEN "na"
            ELSE "enoent")
  /\ UNCHANGED <<store, memfs, dirs, opened, last, tmp>>

NextConc ==
  \/ RenameCheck(Renamer)
  \/ RenameLock(Renamer)
  \/ RenameGet(Renamer)
  \/ RenamePut(Renamer)
  \/ RenameDelete(Renamer)
  \/ RenameReturn(Renamer)
  \/ \E t \in Readers, op \in {"Stat", "Access"}, p \in ConcPaths \cup {OtherFile, FolderA} :
       ReaderCall(t, op, p)
  \/ \E t \in Readers : ReaderLock(t)
  \/ \E t \in Readers : ReaderGet(t)
  \/ \E t \in Readers : ReaderReturn(t)

SpecConc == InitConc /\ [][NextConc]_vars

(***************************************************************************)
(* SpecCalls: threads that each make one call of any handler or Data I/O   *)
(* operation on the shared adapter, every statement of a locked section a  *)
(* step of its own.  A thread is at "lock" while it waits for mutex_, at   *)
(* "get", "put", "del" or "keys" right before that store call, at          *)
(* "readfile" and "remove" before the calls on the ephemeral medium, at    *)
(* "unlock" at the end of the guard's scope.  call[t].ret is "running"     *)
(* from the call to its return or throw.                                   *)
(***************************************************************************)
Callers == 1..NCallers

\* the store and the temp file the adapter starts with; the table has been
\* opened before, so a handle for it is there
StoreA == Put(Put(EmptyStore, "db", DbOptA, <<0>>), "frm", TblFrmA, <<1>>)
TempA == [k \in {TempFrmA} |-> <<1>>]

InitCalls ==
  /\ \/ store = EmptyStore /\ memfs = <<>> /\ dirs = {}
     \/ store = StoreA /\ memfs = TempA /\ dirs = {FolderA}
  /\ call = [t \in Callers |-> Idle]
  /\ pc = [t \in Callers |-> "idle"]
  /\ tmp = [t \in Callers |-> <<>>]
  /\ lock = 0
  /\ opened = {TblFrmA}
  /\ last = NoCall

\* thread t has not called yet
NotCalled(t) == pc[t] = "idle" /\ call[t].op = "none"

\* thread t is inside a call
Running(t) == call[t].ret = "running"

\* the call begins and goes on at label
Begin(t, called, label) ==
  /\ pc' = [pc EXCEPT ![t] = label]
  /\ call' = [call EXCEPT ![t] = [called EXCEPT !.ret = "running"]]

\* the call returns or throws before it has taken the lock
Leave(t, called, ret) ==
  /\ pc' = [pc EXCEPT ![t] = "done"]
  /\ call' = [call EXCEPT ![t] = [called EXCEPT !.ret = ret]]

\* mutant of LockGuard: the guard does not wait for the mutex
LockGuardNoWait(t) ==
  /\ pc[t] = "lock" /\ call[t].op \in {"Open", "Unlink", "Dir", "Read", "Write", "Size"}
  /\ lock' = t + 1
  /\ Goto(t, CASE call[t].op = "Unlink" -> "del"
               [] call[t].op = "Dir" -> "keys"
               [] OTHER -> "get")
  /\ UNCHANGED <<store, memfs, dirs, opened, last, call, tmp>>

\* const lock_guard lock(mutex_) of Exists, Unlink, Dir, Read, Write and Size
LockGuard(t) ==
  /\ pc[t] = "lock" /\ call[t].op \in {"Open", "Unlink", "Dir", "Read", "Write", "Size"}
  /\ lock = 0
  /\ lock' = t + 1
  /\ Goto(t, CASE call[t].op = "Unlink" -> "del"
               [] call[t].op = "Dir" -> "keys"
               [] OTHER -> "get")
  /\ UNCHANGED <<store, memfs, dirs, opened, last, call, tmp>>

\* Rename is called
RenameCall(t, oldpath, newpath) ==
  /\ NotCalled(t)
  /\ Begin(t, [Idle EXCEPT !.op = "Rename", !.path = oldpath, !.arg = <<newpath>>], "start")
  /\ tmp' = [tmp EXCEPT ![t] = <<>>]
  /\ UNCHANGED <<store, memfs, dirs, opened, last, lock>>

\* ReadFile(oldpath) under the mutex; it throws when the file cannot be
\* opened or read and the guard releases the mutex
RenameReadFile(t) ==
  /\ pc[t] = "readfile" /\ call[t].op = "Rename"
  /\ LET r == ReadFile(memfs, call[t].path)
     IN  IF r.ret # "ok"
           THEN /\ Finish(t, "done", r.ret)
                /\ lock' = 0
                /\ UNCHANGED tmp
           ELSE /\ tmp' = [tmp EXCEPT ![t] = <<r.buf>>]
                /\ Goto(t, "put")
                /\ UNCHANGED <<lock, call>>
  /\ UNCHANGED <<store, memfs, dirs, opened, last>>

\* remove(oldpath)
RenameRemove(t) ==
  /\ pc[t] = "remove" /\ call[t].op = "Rename"
  /\ memfs' = RemoveFile(memfs, call[t].path)
  /\ Goto(t, "unlock")
  /\ UNCHANGED <<store, dirs, opened, last, lock, call, tmp>>

\* Open is called: NormalizePath, the extension and the grammar; arg is
\* <<O_CREAT, the path Exists is to look up>>
OpenCall(t, pathname, creat) ==
  LET path == NormalizePath(pathname)
      called == [Idle EXCEPT !.op = "Open", !.path = pathname, !.arg = <<creat, path>>]
  IN  /\ NotCalled(t)
      /\ tmp' = [tmp EXCEPT ![t] = <<>>]
      /\ IF ~IsKnownExtension(path) THEN
           IF StrEndsWith(path, temp_frm_ext) THEN
             IF ~re_path_to_temp_frm_file(path)
               THEN Leave(t, called, "invalid_argument") /\ UNCHANGED dirs
               ELSE Leave(t, called, "na") /\ dirs' = dirs \cup {ParentOf(path)}
           ELSE Leave(t, called, "na") /\ UNCHANGED dirs
         ELSE IF ~re_path_to_known_file(path)
           THEN Leave(t, called, "invalid_argument") /\ UNCHANGED dirs
         ELSE IF ~creat
           THEN Begin(t, called, "lock") /\ UNCHANGED dirs
         ELSE IF StrEndsWith(path, ExtFrm)
           THEN Begin(t, [called EXCEPT !.arg = <<creat, DbOptOf(path)>>], "lock")
                /\ UNCHANGED dirs
         ELSE Begin(t, called, "redirect") /\ UNCHANGED dirs
      /\ UNCHANGED <<store, memfs, opened, last, lock>>

\* Exists: store_->Get(cf, path).has_value()
OpenExists(t) ==
  /\ pc[t] = "get" /\ call[t].op = "Open"
  /\ tmp' = [tmp EXCEPT ![t] = Get(store, GetCf(call[t].arg[2]), call[t].arg[2])]
  /\ Goto(t, "unlock")
  /\ UNCHANGED <<store, memfs, dirs, opened, last, lock, call>>

\* Exists returns and its guard releases the mutex: ENOENT, or the db.opt of
\* a .frm is looked up next, or the file is opened
OpenExistsReturn(t) ==
  LET path == NormalizePath(call[t].path)
  IN  /\ pc[t] = "unlock" /\ call[t].op = "Open"
      /\ lock' = 0
      /\ IF tmp[t] = <<>>
           THEN Finish(t, "done", "enoent")
         ELSE IF call[t].arg[2] = path /\ StrEndsWith(path, ExtFrm)
           THEN /\ Goto(t, "lock")
                /\ call' = [call EXCEPT ![t].arg = <<call[t].arg[1], DbOptOf(path)>>]
         ELSE Goto(t, "redirect") /\ UNCHANGED call
      /\ UNCHANGED <<store, memfs, dirs, opened, last, tmp>>

\* return RedirectOpenFile(path, this)
OpenRedirect(t) ==
  /\ pc[t] = "redirect" /\ call[t].op = "Open"
  /\ opened' = RedirectOpenFile(opened, NormalizePath(call[t].path))
  /\ Finish(t, "done", "ok")
  /\ UNCHANGED <<store, memfs, dirs, last, lock, tmp>>

\* Unlink is called
UnlinkCall(t, path) ==
  LET called == [Idle EXCEPT !.op = "Unlink", !.path = path]
  IN  /\ NotCalled(t)
      /\ IF ~IsKnownExtension(path) THEN Leave(t, called, "na")
         ELSE Begin(t, called, "lock")
      /\ UNCHANGED <<store, memfs, dirs, opened, last, lock, tmp>>

\* store_->Delete(cf, path)
UnlinkDelete(t) ==
  /\ pc[t] = "del" /\ call[t].op = "Unlink"
  /\ store' = Delete(store, GetCf(call[t].path), call[t].path)
  /\ Goto(t, "unlock")
  /\ UNCHANGED <<memfs, dirs, opened, last, lock, call, tmp>>

UnlinkReturn(t) ==
  /\ pc[t] = "unlock" /\ call[t].op = "Unlink"
  /\ lock' = 0
  /\ Finish(t, "done", "ok")
  /\ UNCHANGED <<store, memfs, dirs, opened, last, tmp>>

\* Dir is called
DirCall(t, pathname) ==
  LET path == NormalizePath(pathname)
      called == [Idle EXCEPT !.op = "Dir", !.path = pathname]
  IN  /\ NotCalled(t)
      /\ IF path # <<".">> /\ ~re_folder(path) THEN Leave(t, called, "invalid_argument")
         ELSE Begin(t, called, "lock")
      /\ UNCHANGED <<store, memfs, dirs, opened, last, lock, tmp>>

\* result = store_->GetKeys(...)
DirGetKeys(t) ==
  LET path == NormalizePath(call[t].path)
  IN  /\ pc[t] = "keys" /\ call[t].op = "Dir"
      /\ tmp' = [tmp EXCEPT ![t] =
                   <<IF path = <<".">> THEN GetKeys(store, "db", <<>>)
                     ELSE GetKeys(store, "frm", path)>>]
      /\ Goto(t, "unlock")
      /\ UNCHANGED <<store, memfs, dirs, opened, last, lock, call>>

\* the scope of the guard ends; the names are cut out of the keys
DirReturn(t) ==
  /\ pc[t] = "unlock" /\ call[t].op = "Dir"
  /\ lock' = 0
  /\ Finish(t, "done",
            IF /\ NormalizePath(call[t].path) = <<".">>
               /\ \E i \in 1..Len(tmp[t][1]) : RFindSlash(tmp[t][1][i]) = 0
              THEN "out_of_range" ELSE "ok")
  /\ UNCHANGED <<store, memfs, dirs, opened, last, tmp>>

\* Read is called through a handle
ReadCall(t, path, count, offset) ==
  LET called == [Idle EXCEPT !.op = "Read", !.path = path, !.arg = <<count, offset>>]
  IN  /\ NotCalled(t)
      /\ IF GetCf(path) = "unexpected path" THEN Leave(t, called, "runtime_error")
         ELSE Begin(t, called, "lock")
      /\ UNCHANGED <<store, memfs, dirs, opened, last, lock, tmp>>

\* value = store_->Get(cf, path)
ReadGet(t) ==
  /\ pc[t] = "get" /\ call[t].op = "Read"
  /\ tmp' = [tmp EXCEPT ![t] = Get(store, GetCf(call[t].path), call[t].path)]
  /\ Goto(t, "unlock")
  /\ UNCHANGED <<store, memfs, dirs, opened, last, lock, call>>

\* the scope of the guard ends; not found, or the bytes are copied
ReadReturn(t) ==
  /\ pc[t] = "unlock" /\ call[t].op = "Read"
  /\ lock' = 0
  /\ Finish(t, "done", IF tmp[t] = <<>> THEN "logic_error" ELSE "ok")
  /\ UNCHANGED <<store, memfs, dirs, opened, last, tmp>>

\* Write is called through a handle
WriteCall(t, path, buf, offset) ==
  LET called == [Idle EXCEPT !.op = "Write", !.path = path, !.arg = <<buf, offset>>]
  IN  /\ NotCalled(t)
      /\ IF GetCf(path) = "unexpected path" THEN Leave(t, called, "runtime_error")
         ELSE Begin(t, called, "lock")
      /\ UNCHANGED <<store, memfs, dirs, opened, last, lock, tmp>>

\* string value = store_->Get(cf, path).value_or(string())
WriteGet(t) ==
  /\ pc[t] = "get" /\ call[t].op = "Write"
  /\ tmp' = [tmp EXCEPT ![t] = <<ValueOr(Get(store, GetCf(call[t].path), call[t].path))>>]
  /\ Goto(t, "put")
  /\ UNCHANGED <<store, memfs, dirs, opened, last, lock, call>>

\* the overflow check, which throws and releases the mutex, or resize, memcpy
\* and store_->Put(cf, path, value)
WritePut(t) ==
  LET buf == call[t].arg[1]
      offset == call[t].arg[2]
      value == tmp[t][1]
      required_size == (offset + Len(buf)) % (SizeMax + 1)
      grown == IF Len(value) < required_size THEN Resize(value, required_size) ELSE value
  IN  /\ pc[t] = "put" /\ call[t].op = "Write"
      /\ IF required_size < offset
           THEN /\ Finish(t, "done", "overflow_error")
                /\ lock' = 0
                /\ UNCHANGED store
           ELSE /\ store' = Put(store, GetCf(call[t].path), call[t].path,
                                MemCpy(grown, offset, buf))
                /\ Goto(t, "unlock")
                /\ UNCHANGED <<lock, call>>
      /\ UNCHANGED <<memfs, dirs, opened, last, tmp>>

WriteReturn(t) ==
  /\ pc[t] = "unlock" /\ call[t].op = "Write"
  /\ lock' = 0
  /\ Finish(t, "done", "ok")
  /\ UNCHANGED <<store, memfs, dirs, opened, last, tmp>>

\* Size is called through a handle
SizeCall(t, path) ==
  LET called == [Idle EXCEPT !.op = "Size", !.path = path]
  IN  /\ NotCalled(t)
      /\ IF GetCf(path) = "unexpected path" THEN Leave(t, called, "runtime_error")
         ELSE Begin(t, called, "lock")
      /\ UNCHANGED <<store, memfs, dirs, opened, last, lock, tmp>>

\* store_->Get(cf, path).value_or(string()).size()
SizeGet(t) ==
  /\ pc[t] = "get" /\ call[t].op = "Size"
  /\ tmp' = [tmp EXCEPT ![t] = <<ValueOr(Get(store, GetCf(call[t].path), call[t].path))>>]
  /\ Goto(t, "unlock")
  /\ UNCHANGED <<store, memfs, dirs, opened, last, lock, call>>

SizeReturn(t) ==
  /\ pc[t] = "unlock" /\ call[t].op = "Size"
  /\ lock' = 0
  /\ Finish(t, "done", "ok")
  /\ UNCHANGED <<store, memfs, dirs, opened, last, tmp>>

\* the calls a thread may make
CallRenames == {<<TblFrmA, TblFrmAB>>, <<TempFrmA, TblFrmA>>}
CallPaths == {TblFrmA}
CallOffsets == {0, SizeMax}

\* a step of thread t inside its call
Step(t) ==
  \/ RenameCheck(t) \/ RenameLock(t) \/ RenameGet(t) \/ RenameReadFile(t)
  \/ RenamePut(t) \/ RenameDelete(t) \/ RenameRemove(t) \/ RenameReturn(t)
  \/ ReaderLock(t) \/ ReaderGet(t) \/ ReaderReturn(t)
  \/ LockGuard(t)
  \/ OpenExists(t) \/ OpenExistsReturn(t) \/ OpenRedirect(t)
  \/ UnlinkDelete(t) \/ UnlinkReturn(t)
  \/ DirGetKeys(t) \/ DirReturn(t)
  \/ ReadGet(t) \/ ReadReturn(t)
  \/ WriteGet(t) \/ WritePut(t) \/ WriteReturn(t)
  \/ SizeGet(t) \/ SizeReturn(t)

NextCalls ==
  \/ \E t \in Callers, r \in CallRenames : RenameCall(t, r[1], r[2])
  \/ \E t \in Callers, op \in {"Stat", "Access"}, p \in CallPaths :
       NotCalled(t) /\ ReaderCall(t, op, p)
  \/ \E t \in Callers, p \in CallPaths, creat \in BOOLEAN : OpenCall(t, p, creat)
  \/ \E t \in Callers, p \in CallPaths : UnlinkCall(t, p)
  \/ \E t \in Callers : DirCall(t, FolderA)
  \/ \E t \in Callers, p \in opened : ReadCall(t, p, 1, 0)
  \/ \E t \in Callers, p \in opened, offset \in CallOffsets : WriteCall(t, p, <<0>>, offset)
  \/ \E t \in Callers, p \in opened : SizeCall(t, p)
  \/ \E t \in Callers : RenameCheck(t)
  \/ \E t \in Callers : RenameLock(t)
  \/ \E t \in Callers : RenameGet(t)
  \/ \E t \in Callers : RenameReadFile(t)
  \/ \E t \in Callers : RenamePut(t)
  \/ \E t \in Callers : RenameDelete(t)
  \/ \E t \in Callers : RenameRemove(t)
  \/ \E t \in Callers : RenameReturn(t)
  \/ \E t \in Callers : ReaderLock(t)
  \/ \E t \in Callers : ReaderGet(t)
  \/ \E t \in Callers : ReaderReturn(t)
  \/ \E t \in Callers : LockGuard(t)
  \/ \E t \in Callers : OpenExists(t)
  \/ \E t \in Callers : OpenExistsReturn(t)
  \/ \E t \in Callers : OpenRedirect(t)
  \/ \E t \in Callers : UnlinkDelete(t)
  \/ \E t \in Callers : UnlinkReturn(t)
  \/ \E t \in Callers : DirGetKeys(t)
  \/ \E t \in Callers : DirReturn(t)
  \/ \E t \in Callers : ReadGet(t)
  \/ \E t \in Callers : ReadReturn(t)
  \/ \E t \in Callers : WriteGet(t)
  \/ \E t \in Callers : WritePut(t)
  \/ \E t \in Callers : WriteReturn(t)
  \/ \E t \in Callers : SizeGet(t)
  \/ \E t \in Callers : SizeReturn(t)

SpecCalls == InitCalls /\ [][NextCalls]_vars

\* SpecFair: SpecCalls under a scheduler that lets every thread that can take
\* a step inside its call take one
SpecFair == SpecCalls /\ \A t \in Callers : WF_vars(Step(t))

(***************************************************************************)
(* Claims about Data I/O, checked under SpecIO.                            *)
(***************************************************************************)
\* C3: after Write(p, data, 0) on a known-extension path, whatever the
\* entry held before, Read(p, len(data), 0) returns len(data) bytes and they
\* are exactly data.
C3_WriteThenReadReturnsData ==
  (last.op = "Write" /\ IsKnownExtension(last.path) /\ last.arg[2] = 0) =>
     LET data == last.arg[1]
         r == ReadOp(store, last.path, Len(data), 0)
     IN  /\ last.ret = "ok"
         /\ r.ret = "ok"
         /\ Len(r.out) = Len(data)
         /\ r.out = data

\* a Write at offset 0 of a non-empty buffer over a longer prior value
C3_Witness ==
  /\ last.op = "Write" /\ last.ret = "ok" /\ last.arg[2] = 0
  /\ Len(last.arg[1]) >= 1
  /\ Len(ValueOr(last.pre)) > Len(last.arg[1])

\* C4: after a Write(p, data, offset) that returns, the stored value has
\* length max(old length, offset + len(data)), holds data in
\* [offset, offset + len(data)), keeps every old byte outside that range and
\* holds zero between the old end and offset; an absent entry counts as empty.
C4_WriteEffect ==
  (last.op = "Write" /\ last.ret = "ok") =>
     LET data == last.arg[1]
         offset == last.arg[2]
         old == ValueOr(last.pre)
         new == Get(store, GetCf(last.path), last.path)
     IN  /\ new # <<>>
         /\ Len(new[1]) = Max(Len(old), offset + Len(data))
         /\ \A i \in 1..Len(new[1]) :
              IF i > offset /\ i <= offset + Len(data) THEN new[1][i] = data[i - offset]
              ELSE IF i <= Len(old) THEN new[1][i] = old[i]
              ELSE new[1][i] = 0

\* a Write past the end of a non-empty value: the gap is filled
C4_Witness ==
  /\ last.op = "Write" /\ last.ret = "ok"
  /\ last.pre # <<>>
  /\ Len(last.pre[1]) >= 1
  /\ Len(last.pre[1]) < last.arg[2]
  /\ Len(last.arg[1]) >= 1

\* C15: with sizes of SizeBits bits, Write(p, data, offset) on a
\* known-extension path fails with the overflow error exactly when
\* offset + len(data) exceeds 2^SizeBits - 1, and then the store is left as
\* it was.
C15_WriteOverflow ==
  [][(last'.op = "Write" /\ IsKnownExtension(last'.path)) =>
       LET overflows == last'.arg[2] + Len(last'.arg[1]) > 2^SizeBits - 1
       IN  /\ (last'.ret = "overflow_error") <=> overflows
           /\ overflows => store' = store]_vars

\* a Write at the largest offset over an entry that holds a value
C15_Witness ==
  /\ last.op = "Write" /\ last.ret = "overflow_error"
  /\ last.arg[2] = SizeMax /\ Len(last.arg[1]) >= 1
  /\ last.pre # <<>> /\ Len(last.pre[1]) >= 1
  /\ Get(store, GetCf(last.path), last.path) = last.pre

\* C18: for a known-extension path p, Size(p) is the length of the stored
\* value, zero when the entry is absent; Stat(p) reports that length when the
\* entry exists; Read(p, count, offset) returns no byte when offset is at or
\* beyond that length and the min(count, length - offset) bytes from offset
\* otherwise, an absent entry being read as a value of length zero.
C18_SizeStatReadAgree ==
  LET p == last.path
      value == ValueOr(Get(store, GetCf(p), p))
      length == Len(value)
  IN  /\ (last.op = "Size" /\ IsKnownExtension(p)) =>
           /\ last.ret = "ok"
           /\ last.out = <<length>>
           /\ (p \in DOMAIN store[GetCf(p)] /\ re_path_to_known_file(p)) =>
                StatOp(store, memfs, dirs, opened, p).out = <<length>>
      /\ (last.op = "Read" /\ IsKnownExtension(p)) =>
           LET count == last.arg[1]
               offset == last.arg[2]
           IN  /\ last.ret = "ok"
               /\ last.out = (IF offset >= length THEN <<>>
                              ELSE SubSeq(value, offset + 1,
                                          offset + Min(count, length - offset)))

(***************************************************************************)
(* Claims about the handlers, checked under Spec.                          *)
(***************************************************************************)
IsFrmFile(p) == StrEndsWith(p, ExtFrm) /\ re_path_to_known_file(p)

\* C1: after a successful Rename(a, b) between .frm paths of the known-file
\* grammar (a = b allowed) with a present, Get(Frm, b) is the value a held
\* before, and Get(Frm, a) is absent when a differs from b.
C1_RenameMovesValue ==
  (/\ last.op = "Rename" /\ last.ret = "ok"
   /\ IsFrmFile(last.path) /\ IsFrmFile(last.arg[1])
   /\ last.pre # <<>>) =>
     /\ Get(store, "frm", last.arg[1]) = last.pre
     /\ (last.path # last.arg[1] => Get(store, "frm", last.path) = <<>>)

\* C16: Unlink of a known-extension path returns success whether or not
\* the key is present, and the only change to the store is that this key is
\* absent from its column family: every other key of that family and every
\* key of the other family keeps its value, so the Frm entries of a database
\* outlive its db.opt and a db.opt outlives its tables.
C16_UnlinkRemovesOneKey ==
  [][(last'.op = "Unlink" /\ IsKnownExtension(last'.path)) =>
       /\ last'.ret = "ok"
       /\ last'.path \notin DOMAIN store'[GetCf(last'.path)]
       /\ \A cf \in {"db", "frm"} :
            /\ DOMAIN store'[cf] =
                 (DOMAIN store[cf]) \ (IF cf = GetCf(last'.path) THEN {last'.path} ELSE {})
            /\ \A k \in DOMAIN store'[cf] : store'[cf][k] = store[cf][k]]_vars

\* the db.opt of a database was unlinked and a table of that database is
\* still there
C16_Witness ==
  /\ last.op = "Unlink" /\ last.path = DbOptA /\ last.pre # <<>>
  /\ TblFrmA \in DOMAIN store.frm

\* C17: every key of either column family is of the known-file grammar
\* ./<db>/db.opt or ./<db>/<table>.frm, so none lies in a nested folder;
\* Write is called through the handles Open has made only.
C17_KeysMatchGrammar ==
  \A cf \in {"db", "frm"} : \A k \in DOMAIN store[cf] : re_path_to_known_file(k)

\* both families hold a key, and the last call was a Rename that named a
\* nested folder and was turned away
C17_Witness ==
  /\ last.op = "Rename" /\ last.arg[1] = NestedFrm /\ last.ret = "invalid_argument"
  /\ DOMAIN store.db # {} /\ DOMAIN store.frm # {}

\* the exceptions a handler raises
Raised(ret) ==
  ret \in {"invalid_argument", "bad_optional_access", "cant_open_file", "cant_read_file",
           "overflow_error", "logic_error", "runtime_error", "out_of_range"}

\* C19: Rename(a, b) between two .frm paths of the known-file grammar with a
\* absent from the Frm family raises a failure and leaves the store as it
\* was: b keeps its value or stays absent, no key is written or deleted.
C19_RenameAbsentSourceFails ==
  [][(/\ last'.op = "Rename"
      /\ IsFrmFile(last'.path) /\ IsFrmFile(last'.arg[1])
      /\ last'.path \notin DOMAIN store.frm) =>
        /\ Raised(last'.ret)
        /\ store' = store]_vars

\* a failed Rename from an absent source to a target that holds a value
C19_Witness ==
  /\ last.op = "Rename" /\ IsFrmFile(last.path) /\ IsFrmFile(last.arg[1])
  /\ last.pre = <<>>
  /\ last.ret = "bad_optional_access"
  /\ last.arg[1] \in DOMAIN store.frm

\* C20: a call of Stat, Access, Dir, Read or Size, a call that returns not
\* applicable (an unknown extension, or a syscall number the switch has no
\* case for) and a call that fails with an invalid-path error leave both
\* column families as they were; a step that changes the store is a Write, a
\* Rename or an Unlink.
C20_OnlyWriteRenameUnlinkChangeStore ==
  [][/\ (\/ last'.op \in {"Stat", "Access", "Dir", "Read", "Size", "default"}
         \/ last'.ret \in {"na", "invalid_argument"}) => store' = store
     /\ store' # store => last'.op \in {"Write", "Rename", "Unlink"}]_vars

\* a syscall number without a case returned not applicable over a store that
\* holds a table
C20_Witness ==
  /\ last.op = "default" /\ last.ret = "na"
  /\ DOMAIN store.frm # {}

\* C5: Unlink(p) of a path of the known-file grammar returns success, and a
\* Stat(p) or an Access(p) that follows it directly fails with ENOENT.
C5_UnlinkThenStatAccessEnoent ==
  (last.op = "Unlink" /\ re_path_to_known_file(last.path)) =>
     /\ last.ret = "ok"
     /\ StatOp(store, memfs, dirs, opened, last.path).ret = "enoent"
     /\ AccessOp(store, memfs, dirs, opened, last.path).ret = "enoent"

\* an Unlink of an entry that was there
C5_Witness ==
  /\ last.op = "Unlink" /\ re_path_to_known_file(last.path)
  /\ last.pre # <<>>

\* C6: Open of a .frm path of the known-file grammar fails with ENOENT
\* whenever the db.opt entry of its database is absent, with or without
\* O_CREAT and whether or not the .frm entry exists; with O_CREAT it succeeds
\* when that db.opt entry exists.
C6_OpenFrmNeedsDbOpt ==
  (last.op = "Open" /\ IsFrmFile(NormalizePath(last.path))) =>
     LET path == NormalizePath(last.path)
     IN  /\ ~Exists(store, DbOptOf(path)) => last.ret = "enoent"
         /\ (last.arg[1] /\ Exists(store, DbOptOf(path))) => last.ret = "ok"

\* Open with O_CREAT of a table whose entry exists and whose database has no
\* db.opt
C6_Witness ==
  /\ last.op = "Open" /\ IsFrmFile(last.path) /\ last.arg[1]
  /\ Exists(store, last.path)
  /\ ~Exists(store, DbOptOf(last.path))
  /\ last.ret = "enoent"

\* C7: in every step, a key ./<db>/<table>.frm that was absent from the Frm
\* family becomes present only if ./<db>/db.opt is present in the Db family.
C7_FrmCreatedOnlyInExistingDb ==
  [][\A k \in (DOMAIN store'.frm) \ (DOMAIN store.frm) :
       IsFrmFile(k) => Exists(store, DbOptOf(k))]_vars

\* the file names Dir is to return for the folder path: those of the Frm
\* entries whose folder it is
TablesOf(s, path) ==
  LET folder == IF path[Len(path)] = "/" THEN SubSeq(path, 1, Len(path) - 1) ELSE path
  IN  {StripFolder(k) : k \in {x \in DOMAIN s.frm : ParentOf(x) = folder}}

DatabasesOf(s) ==
  {SubSeq(ParentOf(k), 3, Len(ParentOf(k))) :
     k \in {x \in DOMAIN s.db : StrEndsWith(x, <<"/">> \o DbOptName)}}

Range(f) == {f[i] : i \in DOMAIN f}

\* every table of the store is a table file of a database that has its db.opt
TablesInDatabases(s) ==
  \A k \in DOMAIN s.frm : IsFrmFile(k) /\ Exists(s, DbOptOf(k))

\* C8: Dir returns exactly the names contained in the path: for the root,
\* the name of every database with a db.opt entry, each once; for a folder
\* path, with or without the trailing separator, the file names of the Frm
\* entries of that database and of no other.  Stated for the stores in which
\* every table lies in a database that exists.
C8_DirListsFolder ==
  (last.op = "Dir" /\ last.ret = "ok" /\ TablesInDatabases(store)) =>
     LET path == NormalizePath(last.path)
         names == IF path = <<".">> THEN DatabasesOf(store) ELSE TablesOf(store, path)
     IN  /\ Range(last.out) = names
         /\ Len(last.out) = Cardinality(names)

\* C9: Rename of a temp file ./<db>/<table>.frm~ that is in the ephemeral
\* medium, whatever its content and length, to a .frm path of the known-file
\* grammar returns success, removes the temp file and makes Read of the new
\* path return exactly that content.
C9_PromotionMovesContent ==
  (/\ last.op = "Rename"
   /\ re_path_to_temp_frm_file(last.path) /\ last.pre # <<>>
   /\ IsFrmFile(last.arg[1])) =>
     /\ last.ret = "ok"
     /\ last.path \notin DOMAIN memfs
     /\ LET r == ReadOp(store, last.arg[1], Len(last.pre[1]), 0)
        IN  r.ret = "ok" /\ r.out = last.pre[1]

\* C10: every key of the Frm family ends in .frm and every key of the Db
\* family ends in .opt.
C10_FamilyByExtension ==
  /\ \A k \in DOMAIN store.frm : StrEndsWith(k, ExtFrm)
  /\ \A k \in DOMAIN store.db : StrEndsWith(k, ExtOpt)

\* the database name of a folder path ./<db> or ./<db>/
FolderDb(p) ==
  SubSeq(p, 3, IF p[Len(p)] = "/" THEN Len(p) - 1 ELSE Len(p))

\* C11: Access of a known-extension path that matches the known-file grammar,
\* directly or behind one ./, returns success iff the entry exists and fails
\* with ENOENT otherwise; of a path of the folder grammar it returns success
\* iff the db.opt of that database exists and not applicable otherwise; of
\* any other path without a known extension it returns not applicable.
C11_AccessOutcomes ==
  last.op = "Access" =>
    LET p == last.path
        q == DotSlash \o p
    IN  /\ (IsKnownExtension(p) /\ re_path_to_known_file(p)) =>
             last.ret = (IF p \in DOMAIN store[GetCf(p)] THEN "ok" ELSE "enoent")
        /\ (IsKnownExtension(p) /\ ~re_path_to_known_file(p) /\ re_path_to_known_file(q)) =>
             last.ret = (IF q \in DOMAIN store[GetCf(q)] THEN "ok" ELSE "enoent")
        /\ re_folder(p) =>
             last.ret = (IF Path(FolderDb(p), DbOptName) \in DOMAIN store.db
                           THEN "ok" ELSE "na")
        /\ (~IsKnownExtension(p) /\ ~re_folder(p)) => last.ret = "na"

\* Access of a folder whose database does not exist, beside one that does
C11_Witness ==
  /\ last.op = "Access" /\ re_folder(last.path)
  /\ Path(FolderDb(last.path), DbOptName) \notin DOMAIN store.db
  /\ DOMAIN store.db # {}
  /\ last.ret = "na"


\* the handler op called with the path and the further arguments arg
HandlerOp(op, s, fs, ds, hs, path, arg) ==
  CASE op = "Open" -> OpenOp(s, fs, ds, hs, path, arg[1])
    [] op = "Stat" -> StatOp(s, fs, ds, hs, path)
    [] op = "Access" -> AccessOp(s, fs, ds, hs, path)
    [] op = "Rename" -> RenameOp(s, fs, ds, hs, path, arg[1])
    [] op = "Unlink" -> UnlinkOp(s, fs, ds, hs, path)
    [] op = "Dir" -> DirOp(s, fs, ds, hs, path)

\* C12: a handler call that presents a path in the absolute form
\* /data/<db>/<file> has the outcome of the same call on the relative form
\* ./<db>/<file> and leaves the store that call leaves.
C12_AbsoluteAsRelative ==
  [][(/\ last'.op \in {"Open", "Stat", "Access", "Rename", "Unlink", "Dir"}
      /\ StrStartsWith(last'.path, datadir)) =>
        LET arg == IF last'.op = "Rename" THEN <<NormalizePath(last'.arg[1])>>
                   ELSE last'.arg
            r == HandlerOp(last'.op, store, memfs, dirs, opened,
                           NormalizePath(last'.path), arg)
        IN  /\ last'.ret = r.ret
            /\ last'.out = r.out
            /\ store' = r.store]_vars

(***************************************************************************)
(* Claims about the lock, checked under SpecCalls and SpecFair.            *)
(***************************************************************************)
\* the labels right before a call of Get, Put, Delete or GetKeys
StoreCallLabels == {"get", "put", "del", "keys"}

\* the labels inside the scope of a lock_guard
LockedLabels == StoreCallLabels \cup {"readfile", "remove", "unlock"}

\* C13: a thread that is about to call Get, Put, Delete or GetKeys holds the
\* lock, and at most one thread is inside a locked section, in every
\* interleaving of the callers.
C13_StoreCallsUnderLock ==
  /\ \A t \in Callers : pc[t] \in StoreCallLabels => lock = t + 1
  /\ Cardinality({t \in Callers : pc[t] \in LockedLabels}) <= 1

\* a thread is about to call the store while another waits for the lock
C13_Witness ==
  \E t \in Callers, u \in Callers :
    /\ t # u
    /\ pc[t] \in StoreCallLabels
    /\ pc[u] = "lock"

\* C14: under fair scheduling every call returns or raises; a thread that is
\* not inside a call does not hold the lock, also after a failure inside the
\* locked section; and no thread waits for the lock while it holds it.
C14_CallsReturnAndFreeLock ==
  /\ [](\A t \in Callers : ~Running(t) => lock # t + 1)
  /\ [](\A t \in Callers : pc[t] = "lock" => lock # t + 1)
  /\ \A t \in Callers : Running(t) ~> ~Running(t)

\* a call has failed inside its locked section and another thread has taken
\* the lock since
C14_Witness ==
  \E t \in Callers, u \in Callers :
    /\ t # u
    /\ call[t].ret \in {"bad_optional_access", "cant_open_file", "overflow_error"}
    /\ Running(u)
    /\ lock = u + 1

(***************************************************************************)
(* Claims about concurrent callers, checked under SpecConc.                *)
(***************************************************************************)
\* C2: while Rename(a, b) runs beside Stat and Access callers, every store
\* state a reader reads has exactly one of the two keys: a alone with the
\* original value as long as the rename has not written, b alone with that
\* value once it has; none has both keys or neither.
C2_ReadersSeeOneKey ==
  \A t \in Readers :
    pc[t] = "get" =>
      LET a == call[Renamer].path
          b == call[Renamer].arg[1]
          v == call[Renamer].pre
      IN  \/ /\ pc[Renamer] \in {"start", "lock"}
             /\ Get(store, "frm", a) = v
             /\ Get(store, "frm", b) = <<>>
          \/ /\ pc[Renamer] = "done"
             /\ Get(store, "frm", a) = <<>>
             /\ Get(store, "frm", b) = v

\* a reader is about to read the target while the rename waits for the mutex
C2_Witness ==
  \E t \in Readers :
    /\ pc[t] = "get"
    /\ call[t].arg[1] = call[Renamer].arg[1]
    /\ pc[Renamer] = "lock"

====
